---- MODULE Spec2Model ----
(***************************************************************************)
(* Session concurrency of the Telegram front end: the handlers of          *)
(* src/handlers (text, photo, document), the interrupt prefix of           *)
(* utils.checkInterrupt and the heartbeat of heartbeat.ts, all driving the  *)
(* one process-wide session object.                                        *)
(*                                                                         *)
(* One handler invocation occupies one slot of Procs.  An action is the    *)
(* code a handler runs between two suspension points (an await on the      *)
(* transport, on a timer or on the assistant): JavaScript runs such a      *)
(* stretch to completion, so it is one atomic step.                        *)
(***************************************************************************)
EXTENDS Integers, Sequences, FiniteSets, TLC

\* ------------------------------------------------------------------ bounds
NumProcs == 2        \* handler invocations that may overlap
MaxTriggers == 2     \* triggers (messages, ticks, uploads) in one behaviour

NumSegs == 2         \* segment identifiers of one query
MaxEvents == 3       \* events one query streams to its status callback
MaxCalls == 6        \* calls of startHeartbeat and stopHeartbeat in one behaviour
MaxTicks == 5        \* firings of interval timers in one behaviour
MaxPieces == 4       \* pieces a heartbeat response is put together from
NumGroups == 2       \* media group identifiers
MaxItems == 3        \* items added to the media-group buffer in one behaviour

\* --------------------------------------------------------------- constants
MAX_RETRIES == 1     \* handleText: const MAX_RETRIES = 1
TELEGRAM_MESSAGE_LIMIT == 4096
TELEGRAM_SAFE_LIMIT == 4000
STREAMING_THROTTLE_MS == 500
THINKING_PREVIEW == 500     \* createStatusCallback: content.slice(0, 500)
MEDIA_GROUP_TIMEOUT == 1000
MAX_ACK_LENGTH == 30

Procs == 1..NumProcs

VARIABLES
    session,     \* the singleton session object
    kind,        \* kind[p]: which handler runs in slot p
    pc,          \* pc[p]: the suspension point the handler of slot p waits at
    attempt,     \* attempt[p]: handleText's loop variable
    query,       \* query[p]: p's sendMessageStreaming invocation at the adapter:
                 \* "exec" while it executes, plus the causes of the stop() calls
                 \* that hit it, kept until the handler has dealt with a cancellation
                 \* or a crash
    steps,       \* steps[p]: the calls checkInterrupt made for p's message, in
                 \* order, kept until the query they made room for has settled
    log,         \* log[p]: what the handler in slot p has done so far, in order
    triggers,    \* triggers delivered so far
    stream,      \* one query's StreamingState and what its status callback did last
    sched,       \* the heartbeat scheduler: heartbeatTimer and the interval timers
    buffer       \* a media-group buffer: its pending groups, timers and finalize calls

vars ==
    <<session, kind, pc, attempt, query, steps, log, triggers, stream, sched, buffer>>

\* ---------------------------------------------------------------- session
NoSession == "none"

NoWarning == 0       \* contextWarning is null

\* contextWarning is known by the slot of the caller whose query produced it
Session0 ==
    [sessionId |-> NoSession, isRunning |-> FALSE,
     stopRequested |-> FALSE, interruptRequested |-> FALSE,
     contextWarning |-> NoWarning,
     lastMessage |-> 0,         \* the slot whose message was stored last, 0 for none
     conversationTitle |-> 0]   \* the slot whose message gave the title

isActive(s) == s.sessionId # NoSession

markInterrupt(s) == [s EXCEPT !.interruptRequested = TRUE]

clearStopRequested(s) == [s EXCEPT !.stopRequested = FALSE]

\* the value consumeInterruptFlag returns is s.interruptRequested
consumeInterruptFlag(s) == [s EXCEPT !.interruptRequested = FALSE]

startProcessing(s) == [s EXCEPT !.isRunning = TRUE]

\* the closure startProcessing returns
stopProcessing(s) == [s EXCEPT !.isRunning = FALSE]

\* stop(): a no-op unless a query is running; otherwise cancellation is requested
stop(s) == IF s.isRunning THEN [s EXCEPT !.stopRequested = TRUE] ELSE s

\* what stop() signals to the adapter: every executing invocation is asked to
\* cancel; cause tells the /stop command ("explicit") from a new message ("interrupt")
stopSignal(s, q, cause) ==
    IF s.isRunning
    THEN [p \in Procs |-> IF "exec" \in q[p] THEN q[p] \cup {cause} ELSE q[p]]
    ELSE q

kill(s) == [s EXCEPT !.sessionId = NoSession]

\* the value consumeContextWarning returns is s.contextWarning
consumeContextWarning(s) == [s EXCEPT !.contextWarning = NoWarning]

Executing(p) == "exec" \in query[p]

\* the stop() calls that hit p's query
Causes(p) == query[p] \ {"exec"}

\* ------------------------------------------------------- error strings
\* how a sendMessageStreaming call can settle at the adapter
Outcomes == {"ok", "crash", "cancelled", "timeout", "unknown"}

\* String(error) of a failed call, by the substrings the handlers test for;
\* "rejected" is the call cancelled before it started
ErrorStr(e) ==
    CASE e = "crash"     -> {"exited with code"}
      [] e = "cancelled" -> {"cancel"}
      [] e = "rejected"  -> {"cancel"}
      [] OTHER           -> {}

Includes(e, sub) == sub \in ErrorStr(e)

isClaudeCodeCrash(e) == Includes(e, "exited with code")

isCancellation(e) == Includes(e, "abort") \/ Includes(e, "cancel")

Last(s) == s[Len(s)]

Has(s, x) == \E i \in 1..Len(s) : s[i] = x

Count(s, x) == Cardinality({i \in 1..Len(s) : s[i] = x})

\* -------------------------------------------- dispatcher and scheduler state
Segs == 1..NumSegs
NoSeg == 0          \* segmentId undefined
NoMessage == 0      \* textMessages has no entry
StartOfQuery == 1000    \* Date.now() when the query starts

\* new StreamingState(), and nothing dispatched yet
Stream0 ==
    [textMessages |-> [g \in Segs |-> NoMessage],
     toolMessages |-> <<>>,
     lastEditTimes |-> [g \in Segs |-> 0],
     nextId |-> 1,              \* message_id the transport hands out next
     attemptFrom |-> 1,         \* nextId when the attempt that owns the state began
     now |-> StartOfQuery,      \* Date.now()
     at |-> StartOfQuery,       \* Date.now() of the last event
     ev |-> [type |-> "none", seg |-> NoSeg, content |-> [len |-> 0, esc |-> 0]],
     ops |-> <<>>,              \* transport calls of the last event, in order
     threw |-> FALSE,           \* the last call of the callback rejected
     undeleted |-> {},          \* the thinking and tool messages sent so far that no
                                \* delete has been issued for
     calls |-> <<>>,            \* the text events that reached a transport call, in
                                \* event order, each with the await it has got to
     events |-> 0]

\* what the transport does with the calls of one event: F[i] is whether the i-th
\* call succeeds
Oracle(n) == [1..n -> BOOLEAN]

\* state = new StreamingState() for the next attempt: the transport and the clock
\* go on
Fresh(st) ==
    [Stream0 EXCEPT !.nextId = st.nextId, !.now = st.now, !.at = st.at,
                    !.attemptFrom = st.nextId, !.undeleted = st.undeleted]

\* handleText's catch block: a deleteMessage for every entry of state.toolMessages,
\* each in its own try/catch
CleanupOps(tool, F) ==
    [i \in 1..Len(tool) |->
        [op |-> "delete", msg |-> tool[i], len |-> 0, from |-> 0, html |-> FALSE,
         ok |-> F[i]]]

\* a catch block without its cleanup loop
Cleanup_Skipped(tool, F) == <<>>

\* the transport calls of the catch block's cleanup
Cleanup(tool, F) == CleanupOps(tool, F)

\* the messages a delete is issued for among the transport calls ops
Deletes(ops) == {ops[i].msg : i \in {j \in 1..Len(ops) : ops[j].op = "delete"}}

\* heartbeat.ts at load: heartbeatTimer = null, no interval timer
Sched0 ==
    [enabled |-> TRUE, heartbeatTimer |-> 0, timers |-> {}, created |-> 0,
     calls |-> 0, ticks |-> 0, last |-> "none",
     response |-> <<>>,         \* what a heartbeat's query answered
     verdict |-> "none"]        \* what runHeartbeat made of the response

\* createMediaGroupBuffer(...): no group pending, no timer armed, nothing finalized
Groups == 1..NumGroups

NoGroup == [items |-> <<>>, ctx |-> 0, timer |-> 0]

Buffer0 ==
    [groups |-> [g \in Groups |-> NoGroup],
     timers |-> {},             \* the timeouts that are armed
     created |-> 0,             \* timeouts created so far
     now |-> 0,
     arrivals |-> <<>>,         \* the addToGroup calls so far: group and time
     calls |-> <<>>,            \* the finalize calls so far: group, items, context
     running |-> {}]            \* the finalize calls that have not returned

\* ------------------------------------------------------------------- Init
\* the session and its handlers at start-up
SessionInit ==
    /\ session = Session0
    /\ kind = [p \in Procs |-> "none"]
    /\ pc = [p \in Procs |-> "idle"]
    /\ attempt = [p \in Procs |-> 0]
    /\ query = [p \in Procs |-> {}]
    /\ steps = [p \in Procs |-> <<>>]
    /\ log = [p \in Procs |-> <<>>]
    /\ triggers = 0

Init == SessionInit /\ stream = Stream0 /\ sched = Sched0 /\ buffer = Buffer0

\* a step of the session or of a handler touches neither the dispatcher of another
\* query nor the heartbeat scheduler nor a media-group buffer
Elsewhere == UNCHANGED <<stream, sched, buffer>>

\* a finished invocation leaves before anything else happens: its slot only
\* shows what the invocation did
Ready == \A q \in Procs : pc[q] # "done"

\* the handler of kind k in slot p is resumed at one of the suspension points
At(p, k, places) == Ready /\ kind[p] = k /\ pc[p] \in places /\ Elsewhere

\* a trigger is delivered to the free slot p
Free(p) ==
    /\ Ready
    /\ triggers < MaxTriggers
    /\ pc[p] = "idle"
    /\ \A q \in Procs : q < p => pc[q] # "idle"    \* slots are interchangeable
    /\ Elsewhere

\* the handler of kind k takes the free slot p
Arrive(p, k) ==
    /\ Free(p)
    /\ triggers' = triggers + 1
    /\ kind' = [kind EXCEPT ![p] = k]
    /\ attempt' = [attempt EXCEPT ![p] = 0]

\* the invocation in slot p ends: it returned, or it threw
Ends(p, s, lg, how) ==
    /\ session' = s
    /\ pc' = [pc EXCEPT ![p] = "done"]
    /\ log' = [log EXCEPT ![p] = lg \o <<how>>]
    /\ query' = [query EXCEPT ![p] = {}]

\* where the handler of kind k goes on once its call has settled with out
Settled(k, out) ==
    CASE k = "heartbeat" -> "done"
      [] k = "doc"       -> "reply"
      [] out = "ok"      -> "post"
      [] OTHER           -> "catch"

\* a runHeartbeat without its try/catch: a failed call rejects the tick
SettledLog_Uncaught(k, lg, out) ==
    CASE k = "heartbeat" -> lg \o <<out, IF out = "ok" THEN "returned" ELSE "thrown">>
      [] k = "doc"       -> lg
      [] OTHER           -> lg \o <<out>>

\* what the handler of kind k has done once its call has settled with out:
\* runHeartbeat returns whatever the outcome, saveDocumentToIncoming swallows it
SettledLog(k, lg, out) ==
    CASE k = "heartbeat" -> lg \o <<out, "returned">>
      [] k = "doc"       -> lg
      [] OTHER           -> lg \o <<out>>

\* slot p (a handler of kind k) calls session.sendMessageStreaming from session
\* state s: a call that finds stopRequested set is rejected as cancelled before it
\* reaches the adapter
sendMessageStreaming(p, k, s, lg) ==
    IF s.stopRequested
    THEN /\ session' = [s EXCEPT !.stopRequested = FALSE, !.isRunning = FALSE]
         /\ query' = [query EXCEPT ![p] = {}]
         /\ pc' = [pc EXCEPT ![p] = Settled(k, "rejected")]
         /\ log' = [log EXCEPT ![p] = SettledLog(k, lg \o <<"sms">>, "rejected")]
    ELSE /\ session' = [s EXCEPT !.isRunning = TRUE]
         /\ query' = [query EXCEPT ![p] = {"exec"}]
         /\ pc' = [pc EXCEPT ![p] = "query"]
         /\ log' = [log EXCEPT ![p] = lg \o <<"sms">>]

\* ------------------------------------------------------------- the adapter
\* what the adapter itself can end a query with; Timeout comes from the session
AdapterOutcomes == Outcomes \ {"timeout"}

\* an adapter that learns of a cancellation from the stopRequested flag alone
Signalled_FlagOnly(p) == Causes(p) # {} /\ session.stopRequested

\* the adapter of p's query has a cancellation signal to observe at its next
\* event boundary: stop() signalled it, and the signal stays until it is observed
Signalled(p) == Causes(p) # {}

\* the sendMessageStreaming call of slot p settles with one of outs
QuerySettles(p, outs) ==
    /\ Ready
    /\ pc[p] = "query"
    /\ Executing(p)
    /\ \E out \in outs :
        /\ out = "cancelled" => Signalled(p)
        /\ session' = [session EXCEPT
                          !.isRunning = FALSE,
                          !.sessionId = IF out = "ok" THEN "s" ELSE @,
                          !.stopRequested = IF out = "cancelled" THEN FALSE ELSE @]
        /\ query' = [query EXCEPT ![p] =
                        IF Settled(kind[p], out) = "catch"
                              /\ out \in {"cancelled", "crash"}
                        THEN Causes(p) ELSE {}]
        /\ pc' = [pc EXCEPT ![p] = Settled(kind[p], out)]
        /\ log' = [log EXCEPT ![p] = SettledLog(kind[p], @, out)]
    /\ steps' = [steps EXCEPT ![p] = <<>>]
    /\ UNCHANGED <<kind, attempt, triggers>>
    /\ Elsewhere

\* the query of slot p reaches its end: the adapter emitted done, failed, or
\* observed the cancellation signal at an event boundary
QueryEnd(p) ==
    /\ pc[p] = "query"
    /\ QuerySettles(p, AdapterOutcomes)

\* a session whose query-timeout budget never runs out
QueryTimeout_Never(p) == QuerySettles(p, {})

\* the query of slot p has used up QUERY_TIMEOUT_MS: the call rejects as Timeout,
\* whether or not the adapter has emitted anything
QueryTimeout(p) ==
    /\ pc[p] = "query"
    /\ QuerySettles(p, {"timeout"})

\* the /stop command: session.stop() with the interrupt flag left alone
ExplicitStop ==
    /\ Ready
    /\ session.isRunning
    /\ session' = stop(session)
    /\ query' = stopSignal(session, query, "explicit")
    /\ <<session', query'>> # <<session, query>>
    /\ UNCHANGED <<kind, pc, attempt, steps, log, triggers>>
    /\ Elsewhere

\* ------------------------------------------------------------- handleText
\* rateLimiter.check(userId) denied the message: the audit entry, the "Rate
\* limited" reply, return
Denied(p, s) == Ends(p, s, <<"check", "rateLimited">>, "returned")

\* a handleText that marks the processing started before it asks the rate limiter
Admit_LateCheck(p, s) ==
    \E blank \in BOOLEAN, allowed \in BOOLEAN :
        IF blank THEN Ends(p, s, <<"blank">>, "returned")
        ELSE IF ~allowed
        THEN Ends(p, startProcessing(s), <<"start", "check", "rateLimited">>, "returned")
        ELSE sendMessageStreaming(p, "text", startProcessing(s), <<"start", "check">>)

\* handleText steps 4 and 5: the message is stored for a retry, and gives the
\* conversation its title if the session is not active
remember(s, p) ==
    [s EXCEPT !.lastMessage = p,
              !.conversationTitle = IF isActive(s) THEN @ ELSE p]

\* handleText steps 2-9 after checkInterrupt returned: the blank check, the rate
\* limiter, lastMessage and the title, startProcessing and the first
\* sendMessageStreaming
Admit(p, s) ==
    \E blank \in BOOLEAN, allowed \in BOOLEAN :
        IF blank THEN Ends(p, s, <<"blank">>, "returned")
        ELSE IF ~allowed THEN Denied(p, s)
        ELSE sendMessageStreaming(p, "text", startProcessing(remember(s, p)),
                                  <<"check", "start">>)

\* checkInterrupt up to its sleep: a "!" message that finds a query running marks
\* the interrupt and stops it; every other message passes straight through
checkInterrupt(p, bang) ==
    IF bang /\ session.isRunning
    THEN /\ session' = stop(markInterrupt(session))
         /\ query' = stopSignal(session, query, "interrupt")
         /\ steps' = [steps EXCEPT ![p] = <<"markInterrupt", "stop">>]
         /\ pc' = [pc EXCEPT ![p] = "grace"]
         /\ UNCHANGED log
    ELSE /\ Admit(p, session)
         /\ UNCHANGED steps

\* a handleText that looks for the interrupt prefix before it checks the sender
TextArrive_InterruptFirst(p) ==
    /\ Arrive(p, "text")
    /\ \E authorized \in BOOLEAN, bang \in BOOLEAN :
        IF ~authorized
        THEN /\ Ends(p, IF bang /\ session.isRunning
                        THEN clearStopRequested(stop(markInterrupt(session)))
                        ELSE session,
                     <<"unauthorized">>, "returned")
             /\ UNCHANGED steps
        ELSE checkInterrupt(p, bang)

\* a text message arrives: handleText up to its first suspension
TextArrive(p) ==
    /\ Arrive(p, "text")
    /\ \E authorized \in BOOLEAN, bang \in BOOLEAN :
        IF ~authorized
        THEN /\ Ends(p, session, <<"unauthorized">>, "returned")
             /\ UNCHANGED steps
        ELSE checkInterrupt(p, bang)

\* checkInterrupt that forgets to clear stopRequested after its sleep
AfterGrace_NoClear(p) ==
    /\ At(p, "text", {"grace"})
    /\ steps' = [steps EXCEPT ![p] = @ \o <<"sleep">>]
    /\ Admit(p, session)
    /\ UNCHANGED <<kind, attempt, triggers>>

\* the grace period of checkInterrupt is over: clearStopRequested, and handleText
\* goes on
AfterGrace(p) ==
    /\ At(p, "text", {"grace"})
    /\ steps' = [steps EXCEPT ![p] = @ \o <<"sleep", "clearStopRequested">>]
    /\ Admit(p, clearStopRequested(session))
    /\ UNCHANGED <<kind, attempt, triggers>>

\* handleText that returns after a successful query without its cleanup
TextPost_NoCleanup(p) ==
    /\ At(p, "text", {"post"})
    /\ Ends(p, consumeContextWarning(session), log[p], "returned")
    /\ UNCHANGED <<kind, attempt, steps, triggers>>

\* await statusCallback("context_warning", contextWarning): the callback tests
\* statusType for "thinking", "tool", "text", "segment_end" and "done"; this type
\* matches none of them, and the call resolves without a transport call
contextWarningCall(st) ==
    [st EXCEPT !.ev = [type |-> "context_warning", seg |-> NoSeg,
                       content |-> [len |-> 1, esc |-> 0]],
               !.at = st.now,
               !.ops = <<>>,
               !.threw = FALSE]

\* handleText after a successful query: the context warning is consumed and, if
\* there was one, passed to the status callback; the audit log written, cleanup
TextPost(p) ==
    /\ Ready
    /\ kind[p] = "text"
    /\ pc[p] = "post"
    /\ stream' = IF session.contextWarning # NoWarning
                 THEN contextWarningCall(stream)
                 ELSE stream
    /\ Ends(p, stopProcessing(consumeContextWarning(session)),
            log[p] \o <<"release">>, "returned")
    /\ UNCHANGED <<kind, attempt, steps, triggers, sched, buffer>>

\* handleText's catch block: the cleanup of the attempt's ephemeral messages, then
\* the decision; retry is its test for another attempt
CatchBlock(p, retry) ==
    /\ Ready
    /\ kind[p] = "text"
    /\ pc[p] = "catch"
    /\ \E F \in Oracle(Len(stream.toolMessages)) :
          LET ops == Cleanup(stream.toolMessages, F) IN
          stream' = [stream EXCEPT !.ops = ops, !.undeleted = @ \ Deletes(ops)]
    /\ UNCHANGED <<sched, buffer>>
    /\ LET e == Last(log[p]) IN
       IF retry
       THEN \E killOk \in BOOLEAN :
               IF killOk
               THEN /\ session' = kill(session)
                    /\ pc' = [pc EXCEPT ![p] = "retry"]
                    /\ log' = [log EXCEPT ![p] = @ \o <<"kill">>]
                    /\ query' = [query EXCEPT ![p] = {}]
               ELSE Ends(p, session, log[p], "thrown")
       ELSE IF isCancellation(e)
       THEN IF session.interruptRequested
            THEN Ends(p, stopProcessing(consumeInterruptFlag(session)),
                      log[p] \o <<"release">>, "returned")
            ELSE /\ session' = consumeInterruptFlag(session)
                 /\ pc' = [pc EXCEPT ![p] = "stopNotice"]
                 /\ query' = [query EXCEPT ![p] = {}]
                 /\ UNCHANGED log
       ELSE /\ pc' = [pc EXCEPT ![p] = "errorNotice"]
            /\ query' = [query EXCEPT ![p] = {}]
            /\ UNCHANGED <<session, log>>
    /\ steps' = [steps EXCEPT ![p] = <<>>]
    /\ UNCHANGED <<kind, attempt, triggers>>

\* a catch block that retries a crash on every attempt
TextCatch_RetryAgain(p) ==
    CatchBlock(p, isClaudeCodeCrash(Last(log[p])) /\ attempt[p] <= MAX_RETRIES)

\* a catch block that retries whatever the error was
TextCatch_RetryAny(p) == CatchBlock(p, attempt[p] < MAX_RETRIES)

TextCatch(p) ==
    /\ pc[p] = "catch"
    /\ CatchBlock(p, isClaudeCodeCrash(Last(log[p])) /\ attempt[p] < MAX_RETRIES)

\* a retry that goes on with the StreamingState of the attempt that crashed
TextRetry_SameState(p) ==
    /\ Ready
    /\ kind[p] = "text"
    /\ pc[p] = "retry"
    /\ \E replyOk \in BOOLEAN :
        IF replyOk
        THEN /\ attempt' = [attempt EXCEPT ![p] = @ + 1]
             /\ stream' = [stream EXCEPT !.attemptFrom = stream.nextId, !.events = 0]
             /\ sendMessageStreaming(p, "text", session, log[p] \o <<"retryNotice">>)
        ELSE /\ Ends(p, session, log[p], "thrown")
             /\ UNCHANGED <<attempt, stream>>
    /\ UNCHANGED <<kind, steps, triggers, sched, buffer>>

\* the retry notice was sent (or the send failed): fresh state and callback, next
\* attempt
TextRetry(p) ==
    /\ Ready
    /\ kind[p] = "text"
    /\ pc[p] = "retry"
    /\ \E replyOk \in BOOLEAN :
        IF replyOk
        THEN /\ attempt' = [attempt EXCEPT ![p] = @ + 1]
             /\ stream' = Fresh(stream)
             /\ sendMessageStreaming(p, "text", session, log[p] \o <<"retryNotice">>)
        ELSE /\ Ends(p, session, log[p], "thrown")
             /\ UNCHANGED <<attempt, stream>>
    /\ UNCHANGED <<kind, steps, triggers, sched, buffer>>

\* handleText that returns after its notice without its cleanup
TextNotice_NoCleanup(p) ==
    /\ At(p, "text", {"stopNotice", "errorNotice"})
    /\ Ends(p, session, log[p] \o <<pc[p]>>, "returned")
    /\ UNCHANGED <<kind, attempt, steps, triggers>>

\* the "Query stopped" or the error notice was sent (or the send failed), cleanup
TextNotice(p) ==
    /\ At(p, "text", {"stopNotice", "errorNotice"})
    /\ \E replyOk \in BOOLEAN :
        IF replyOk
        THEN Ends(p, stopProcessing(session), log[p] \o <<pc[p], "release">>, "returned")
        ELSE Ends(p, session, log[p], "thrown")
    /\ UNCHANGED <<kind, attempt, steps, triggers>>

\* ----------------------------------------------------------- processPhotos
\* a photo arrives: the rate limiter is asked (by handlePhoto for a single photo,
\* by the media-group buffer for a group), and processPhotos is called with one
\* photo, or with the photos of a media group
PhotosArrive(p) ==
    /\ Arrive(p, "photo")
    /\ \E allowed \in BOOLEAN, single \in BOOLEAN :
        IF ~allowed THEN Denied(p, session)
        ELSE IF single
        THEN sendMessageStreaming(p, "photo", startProcessing(session),
                                  <<"check", "start">>)
        ELSE /\ session' = startProcessing(session)
             /\ pc' = [pc EXCEPT ![p] = "saved"]
             /\ log' = [log EXCEPT ![p] = <<"check", "start">>]
             /\ UNCHANGED query
    /\ UNCHANGED steps

\* several photos: the files are renamed, the "Saved n photos" reply is awaited, and
\* only then is the processing released
PhotosSaved(p) ==
    /\ At(p, "photo", {"saved"})
    /\ \E replyOk \in BOOLEAN :
        IF replyOk
        THEN Ends(p, stopProcessing(session), log[p] \o <<"release">>, "returned")
        ELSE Ends(p, session, log[p], "thrown")
    /\ UNCHANGED <<kind, attempt, steps, triggers>>

\* one photo, query succeeded: rename, confirmation, audit log, finally
PhotoPost(p) ==
    /\ At(p, "photo", {"post"})
    /\ \E replyOk \in BOOLEAN :
        Ends(p, stopProcessing(session), log[p] \o <<"release">>,
             IF replyOk THEN "returned" ELSE "thrown")
    /\ UNCHANGED <<kind, attempt, steps, triggers>>

\* handleProcessingError: a cancellation consumes the interrupt flag and sends
\* "Query stopped" unless it was an interrupt; any other error is reported
handleProcessingError(p) ==
    /\ IF isCancellation(Last(log[p]))
       THEN /\ session' = consumeInterruptFlag(session)
            /\ pc' = [pc EXCEPT ![p] =
                         IF session.interruptRequested THEN "finally" ELSE "stopNotice"]
       ELSE /\ pc' = [pc EXCEPT ![p] = "errorNotice"]
            /\ UNCHANGED session
    /\ query' = [query EXCEPT ![p] = {}]
    /\ UNCHANGED log

\* one photo, query failed: the catch block of processPhotos
PhotoCatch(p) ==
    /\ At(p, "photo", {"catch"})
    /\ handleProcessingError(p)
    /\ UNCHANGED <<kind, attempt, steps, triggers>>

\* the notice of handleProcessingError was sent (or the send threw), then the
\* fallback save, then the finally block
PhotoFinally(p) ==
    /\ At(p, "photo", {"stopNotice", "errorNotice", "finally"})
    /\ \E replyOk \in BOOLEAN :
        /\ pc[p] = "finally" => replyOk
        /\ Ends(p, stopProcessing(session),
                log[p] \o (IF replyOk /\ pc[p] # "finally" THEN <<pc[p]>> ELSE <<>>)
                       \o <<"release">>,
                IF replyOk THEN "returned" ELSE "thrown")
    /\ UNCHANGED <<kind, attempt, steps, triggers>>

\* -------------------------------------------------- saveDocumentToIncoming
\* a single document: a descriptive file name is kept, a generic one is replaced
\* by a name the assistant suggests from the extracted text
DocArrive(p) ==
    /\ Arrive(p, "doc")
    /\ \E allowed \in BOOLEAN, generic \in BOOLEAN :
        IF ~allowed THEN Denied(p, session)
        ELSE /\ session' = startProcessing(session)
             /\ pc' = [pc EXCEPT ![p] = IF generic THEN "extract" ELSE "reply"]
             /\ log' = [log EXCEPT ![p] = <<"check", "start">>]
             /\ UNCHANGED query
    /\ UNCHANGED steps

\* the text is extracted: the query for a file name
DocExtract(p) ==
    /\ At(p, "doc", {"extract"})
    /\ sendMessageStreaming(p, "doc", session, log[p])
    /\ UNCHANGED <<kind, attempt, steps, triggers>>

\* the file is moved and the reply sent (a failure is caught and answered with
\* the fallback reply, which may throw), then the finally block
DocReply(p) ==
    /\ At(p, "doc", {"reply"})
    /\ \E replyOk \in BOOLEAN :
        Ends(p, stopProcessing(session), log[p] \o <<"release">>,
             IF replyOk THEN "returned" ELSE "thrown")
    /\ UNCHANGED <<kind, attempt, steps, triggers>>

\* ---------------------------------------------------------- processArchive
ArchiveArrive(p) ==
    /\ Arrive(p, "archive")
    /\ \E allowed \in BOOLEAN :
        IF ~allowed THEN Denied(p, session)
        ELSE /\ session' = startProcessing(session)
             /\ pc' = [pc EXCEPT ![p] = "status"]
             /\ log' = [log EXCEPT ![p] = <<"check", "start">>]
             /\ UNCHANGED query
    /\ UNCHANGED steps

\* the "Extracting" status reply is awaited outside the try block; inside it the
\* archive is extracted and the query sent
ArchiveStatus(p) ==
    /\ At(p, "archive", {"status"})
    /\ \E r \in {"replyFails", "extractFails", "ok"} :
        CASE r = "replyFails"   -> Ends(p, session, log[p], "thrown")
          [] r = "extractFails" ->
                /\ pc' = [pc EXCEPT ![p] = "catch"]
                /\ log' = [log EXCEPT ![p] = @ \o <<"unknown">>]
                /\ UNCHANGED <<session, query>>
          [] OTHER -> sendMessageStreaming(p, "archive", session, log[p])
    /\ UNCHANGED <<kind, attempt, steps, triggers>>

\* query succeeded: audit log, the extracted files and the status message removed
ArchivePost(p) ==
    /\ At(p, "archive", {"post"})
    /\ Ends(p, stopProcessing(session), log[p] \o <<"release">>, "returned")
    /\ UNCHANGED <<kind, attempt, steps, triggers>>

\* the catch block: the status message is deleted, the failure reported, finally
ArchiveCatch(p) ==
    /\ At(p, "archive", {"catch"})
    /\ \E replyOk \in BOOLEAN :
        Ends(p, stopProcessing(session),
             log[p] \o (IF replyOk THEN <<"errorNotice">> ELSE <<>>) \o <<"release">>,
             IF replyOk THEN "returned" ELSE "thrown")
    /\ UNCHANGED <<kind, attempt, steps, triggers>>

\* ------------------------------------------------------------ runHeartbeat
\* a runHeartbeat that does not look at isRunning
HeartbeatTick_NoRunningCheck(p) ==
    /\ Arrive(p, "heartbeat")
    /\ IF ~isActive(session)
       THEN Ends(p, session, <<"skipped">>, "returned")
       ELSE sendMessageStreaming(p, "heartbeat", session, <<>>)
    /\ UNCHANGED steps

\* runHeartbeat in slot p up to its await: skipped unless the session is active
\* and idle
runHeartbeat(p) ==
    IF ~isActive(session) \/ session.isRunning
    THEN Ends(p, session, <<"skipped">>, "returned")
    ELSE sendMessageStreaming(p, "heartbeat", session, <<>>)

\* the interval timer fires
HeartbeatTick(p) ==
    /\ Arrive(p, "heartbeat")
    /\ runHeartbeat(p)
    /\ UNCHANGED steps

\* the slot of a finished invocation is free again
Recycle(p) ==
    /\ pc[p] = "done"
    /\ pc' = [pc EXCEPT ![p] = "idle"]
    /\ kind' = [kind EXCEPT ![p] = "none"]
    /\ attempt' = [attempt EXCEPT ![p] = 0]
    /\ log' = [log EXCEPT ![p] = <<>>]
    /\ steps' = [steps EXCEPT ![p] = <<>>]
    /\ UNCHANGED <<session, query, triggers>>
    /\ Elsewhere

Next ==
    \/ \E p \in Procs : TextArrive(p)
    \/ \E p \in Procs : AfterGrace(p)
    \/ \E p \in Procs : QueryEnd(p)
    \/ \E p \in Procs : QueryTimeout(p)
    \/ \E p \in Procs : TextPost(p)
    \/ \E p \in Procs : TextCatch(p)
    \/ \E p \in Procs : TextRetry(p)
    \/ \E p \in Procs : TextNotice(p)
    \/ \E p \in Procs : PhotosArrive(p)
    \/ \E p \in Procs : PhotosSaved(p)
    \/ \E p \in Procs : PhotoPost(p)
    \/ \E p \in Procs : PhotoCatch(p)
    \/ \E p \in Procs : PhotoFinally(p)
    \/ \E p \in Procs : DocArrive(p)
    \/ \E p \in Procs : DocExtract(p)
    \/ \E p \in Procs : DocReply(p)
    \/ \E p \in Procs : ArchiveArrive(p)
    \/ \E p \in Procs : ArchiveStatus(p)
    \/ \E p \in Procs : ArchivePost(p)
    \/ \E p \in Procs : ArchiveCatch(p)
    \/ \E p \in Procs : HeartbeatTick(p)
    \/ \E p \in Procs : Recycle(p)
    \/ ExplicitStop

Spec == Init /\ [][Next]_vars

\* the query of slot p makes the session record a context warning
ContextWarns(p) ==
    /\ Ready
    /\ pc[p] = "query"
    /\ Executing(p)
    /\ session.contextWarning # p
    /\ session' = [session EXCEPT !.contextWarning = p]
    /\ UNCHANGED <<kind, pc, attempt, query, steps, log, triggers>>
    /\ Elsewhere

\* the handlers with queries that produce context warnings
WarnNext == Next \/ \E p \in Procs : ContextWarns(p)

WarnSpec == Init /\ [][WarnNext]_vars

\* the same from the state an earlier query that succeeded has left: the session
\* is active, its handler has returned
ActiveInit ==
    /\ session = [Session0 EXCEPT !.sessionId = "s"]
    /\ kind = [p \in Procs |-> "none"]
    /\ pc = [p \in Procs |-> "idle"]
    /\ attempt = [p \in Procs |-> 0]
    /\ query = [p \in Procs |-> {}]
    /\ steps = [p \in Procs |-> <<>>]
    /\ log = [p \in Procs |-> <<>>]
    /\ triggers = 0
    /\ stream = Stream0
    /\ sched = Sched0
    /\ buffer = Buffer0

ActiveSpec == ActiveInit /\ [][Next]_vars

\* the timer of the query-timeout budget fires, and a finished handler's slot is
\* given back; the adapter itself is under no obligation to ever end a query
LiveSpec ==
    /\ Spec
    /\ \A p \in Procs : WF_vars(QueryTimeout(p))
    /\ \A p \in Procs : WF_vars(Recycle(p))

\* the adapter of p's query reaches an event boundary and observes the
\* cancellation signalled to it
Observes(p) ==
    /\ Signalled(p)
    /\ QuerySettles(p, {"cancelled"})

\* an adapter that keeps reaching event boundaries; nothing else is obliged to
\* end a query, the query-timeout budget included
CancelSpec ==
    /\ Spec
    /\ \A p \in Procs : WF_vars(Observes(p))
    /\ \A p \in Procs : WF_vars(Recycle(p))

\* ------------------------------------------------------------- properties
Running == {p \in Procs : Executing(p)}

\* the outcomes of p's sendMessageStreaming calls, in order
Results(lg) == SelectSeq(lg, LAMBDA x : x \in Outcomes \cup {"rejected"})

\* the notices the handler sent to the chat, in order
Notices(lg) ==
    SelectSeq(lg, LAMBDA x : x \in {"retryNotice", "stopNotice", "errorNotice"})

\* the handler of slot p has just finished
Finished(p, k) == kind[p] = k /\ pc[p] = "done"

Protocol == <<"markInterrupt", "stop", "sleep", "clearStopRequested">>

\* C1: at most one sendMessageStreaming invocation executes at any time, whatever
\* mix of text messages, heartbeat ticks and uploads arrives.
C1_AtMostOneQuery == Cardinality(Running) <= 1

\* C2: a text message that arrives while isRunning is true does not start a query
\* of its own on arrival: its handler ends, or it goes through the interrupt
\* protocol first.
C2_NoQueryBesideRunning ==
    [][\A p \in Procs :
        (pc[p] = "idle" /\ kind'[p] = "text" /\ session.isRunning)
            => ~("exec" \in query'[p])]_vars

C4_ReleasedOnEveryExit ==
    \A p \in Procs :
        (pc[p] = "done" /\ Has(log[p], "start")) => Has(log[p], "release")

\* C5: one run of handleText calls sendMessageStreaming at most twice, and a
\* second time only when the first call failed with a crash.
C5_AtMostOneRetry ==
    \A p \in Procs :
        kind[p] = "text" =>
            /\ Count(log[p], "sms") <= 2
            /\ Count(log[p], "sms") = 2 => Results(log[p])[1] = "crash"
            /\ Count(log[p], "sms") = attempt[p] + 1 \/ ~Has(log[p], "sms")

C5_Witness ==
    \E p \in Procs :
        /\ Finished(p, "text")
        /\ Results(log[p]) = <<"crash", "crash">>
        /\ Count(log[p], "sms") = 2

\* C6: a crash on the first attempt and success on the second is exactly two
\* calls, no failure notice, only the retry notice, and isRunning cleared at the
\* end.
C6_CrashThenSuccess ==
    \A p \in Procs :
        (Finished(p, "text") /\ Results(log[p]) = <<"crash", "ok">>) =>
            /\ Count(log[p], "sms") = 2
            /\ Notices(log[p]) = <<"retryNotice">>
            /\ Has(log[p], "release")
            /\ Last(log[p]) = "returned"
            /\ ~session.isRunning

C6_Witness ==
    \E p \in Procs : Finished(p, "text") /\ Results(log[p]) = <<"crash", "ok">>

\* C7: a call that failed as cancelled, timed out or unknown is never followed
\* by another call of the same run of handleText.
C7_TerminalFailures ==
    \A p \in Procs :
        kind[p] = "text" =>
            \A i \in 1..Len(log[p]) :
                log[p][i] \in {"cancelled", "rejected", "timeout", "unknown"}
                    => \A j \in (i + 1)..Len(log[p]) : log[p][j] # "sms"

C7_Witness ==
    \E p \in Procs :
        /\ Finished(p, "text")
        /\ Results(log[p]) \in {<<"timeout">>, <<"unknown">>, <<"cancelled">>}
        /\ Notices(log[p]) # <<>>

\* C8: when handleText deals with its cancelled query, the query that a new
\* message interrupted gets no "Query stopped" notice, and the query that only an
\* explicit stop hit gets one, whatever interrupts happened before.
C8_NoticeOnlyForExplicitStop ==
    [][\A p \in Procs :
        (kind[p] = "text" /\ pc[p] = "catch" /\ Last(log[p]) = "cancelled"
            /\ pc'[p] # "catch")
        => /\ "interrupt" \in query[p] => pc'[p] # "stopNotice"
           /\ query[p] = {"explicit"} => pc'[p] = "stopNotice"]_vars

\* C9: the interrupt protocol runs markInterrupt, stop, the grace period and
\* clearStopRequested in this order, all of them before the new query is issued,
\* and the new query is not issued while stopRequested is set.
C9_ProtocolOrder ==
    \A p \in Procs :
        steps[p] # <<>> =>
            /\ kind[p] = "text"
            /\ IF pc[p] = "grace"
               THEN steps[p] = <<"markInterrupt", "stop">> /\ log[p] = <<>>
               ELSE steps[p] = Protocol
            /\ Has(log[p], "sms") => ~Has(log[p], "rejected")

C9_Witness ==
    \E p \in Procs : steps[p] = Protocol /\ Executing(p)

\* C10: once the protocol has issued the new query, the query it superseded no
\* longer executes.
C10_SupersededQueryGone ==
    \A p, q \in Procs :
        (p # q /\ steps[p] = Protocol /\ Executing(p))
            => ~(Executing(q) /\ "interrupt" \in query[q])

\* C25: at most one context warning is pending; the caller whose query produced a
\* warning consumes it before it is over, whatever kind of caller it is; and a
\* warning is consumed only by the caller whose query produced it.
C25_WarningConsumedByOwner ==
    [][/\ \A p \in Procs :
            (pc[p] # "done" /\ pc'[p] = "done") => session'.contextWarning # p
       /\ (session.contextWarning # NoWarning /\ session'.contextWarning = NoWarning)
             => \E p \in Procs :
                    /\ session.contextWarning = p
                    /\ pc[p] = "post"
                    /\ pc'[p] = "done"]_vars

Holding(p) == pc[p] \notin {"idle", "done"} /\ Has(log[p], "start")

\* C33: isRunning is true for as long as some handler is between its
\* startProcessing call and its release, also when another handler that held
\* startProcessing at the same time has released.
C33_RunningWhileHeld == (\E p \in Procs : Holding(p)) => session.isRunning

\* C34: the interrupt flag is not left behind: once every handler is over (no
\* query runs, no interrupt protocol is under way), interruptRequested is false,
\* whatever way the superseded query ended.
C34_NoStaleInterrupt ==
    (\A p \in Procs : pc[p] \in {"idle", "done"}) => ~session.interruptRequested

\* C35: while a heartbeat's query executes no other query does, a second
\* heartbeat's or a handler's: nothing starts one beside it.
C35_HeartbeatAlone ==
    \A p \in Procs : (kind[p] = "heartbeat" /\ Executing(p)) => Running = {p}

\* C36: a text message from an unauthorized user changes nothing of the session:
\* no markInterrupt, stop, clearStopRequested, startProcessing or
\* sendMessageStreaming, no lastMessage and no title, whatever the message
\* starts with and whether or not a query is running.
C36_UnauthorizedTouchesNothing ==
    [][\A p \in Procs :
        (pc[p] = "idle" /\ kind'[p] = "text" /\ Has(log'[p], "unauthorized"))
            => /\ session' = session
               /\ query' = query
               /\ steps'[p] = <<>>
               /\ log'[p] = <<"unauthorized", "returned">>
               /\ pc'[p] = "done"]_vars

C36_Witness ==
    \E p, q \in Procs :
        /\ Finished(p, "text") /\ log[p] = <<"unauthorized", "returned">>
        /\ Executing(q) /\ Causes(q) = {}
        /\ session.isRunning /\ ~session.interruptRequested /\ session.lastMessage = q

\* C37: a text message the rate limiter denies has not touched the running query:
\* its handler called neither markInterrupt nor stop, so no query is cancelled
\* without a query that replaces it.
C37_DeniedLeavesQueryAlone ==
    \A p \in Procs :
        (kind[p] = "text" /\ Has(log[p], "rateLimited")) =>
            /\ ~Has(steps[p], "markInterrupt")
            /\ ~Has(steps[p], "stop")

\* startTypingIndicator(ctx) is called in the stretch of handleText and of
\* processPhotos (one photo) that goes on to the first sendMessageStreaming call
TypingStarted(p) == kind[p] \in {"text", "photo"} /\ Has(log[p], "sms")

\* typing.stop() is the statement after stopProcessing(), in both
TypingStopped(p) == Has(log[p], "release")

\* C39: on every exit path of handleText and processPhotos typing.stop() has been
\* called by the time the handler is over, so the typing loop finds running
\* false at its next test and ends.
C39_TypingStopped ==
    \A p \in Procs : (pc[p] = "done" /\ TypingStarted(p)) => TypingStopped(p)

\* C31: when handleText finds a context warning pending after a successful query,
\* it consumes the warning and a render carrying it (a reply or an edit) goes out
\* through the status callback.
C31_WarningShown ==
    [][\A p \in Procs :
        (kind[p] = "text" /\ pc[p] = "post" /\ pc'[p] = "done"
            /\ session.contextWarning # NoWarning)
            => /\ session'.contextWarning = NoWarning
               /\ \E i \in 1..Len(stream'.ops) :
                      stream'.ops[i].op \in {"reply", "edit"}]_vars

\* C28: a query that stop() was called on (by /stop or by an interrupt) is not
\* retried: whatever its call then fails with, handleText does not go on to a
\* second attempt.
C28_StoppedQueryNotRetried ==
    [][\A p \in Procs :
        (kind[p] = "text" /\ pc[p] = "catch" /\ Causes(p) # {})
            => /\ pc'[p] # "retry"
               /\ ~Has(log'[p], "kill")]_vars

Empty == [len |-> 0, esc |-> 0]
Short == [len |-> 7, esc |-> 0]
Preview == [len |-> 501, esc |-> 0]     \* longer than the thinking preview
Marked == [len |-> 4001, esc |-> 40]    \* longer than the safe limit, with markup
Long == [len |-> 4097, esc |-> 0]       \* longer than the message limit

\* the contents an event of each type is tried with
Contents(type) ==
    CASE type = "thinking"    -> {Short, Preview}
      [] type = "tool"        -> {Short, Long}
      [] type = "text"        -> {Short, Marked}
      [] type = "segment_end" -> {Empty, Short, Marked, Long}
      [] OTHER                -> {Short}

Min(a, b) == IF a < b THEN a ELSE b

\* convertMarkdownToHtml: an escaped character ("<" to "&lt;") takes four
Html(c) == c.len + 3 * c.esc

\* content.length > limit ? content.slice(0, limit) + "..." : content
Truncate(c, limit) ==
    IF c.len > limit THEN [len |-> limit + 3, esc |-> Min(c.esc, limit)] ELSE c

\* the callback's view of StreamingState at the start of a call
Begin ==
    [tm |-> stream.textMessages, tool |-> stream.toolMessages,
     let |-> stream.lastEditTimes, next |-> stream.nextId,
     ops |-> <<>>, thrown |-> FALSE]

Call(r, F, rec) ==
    LET ok == F[Len(r.ops) + 1] IN
    [r EXCEPT !.ops = Append(@, rec @@ [ok |-> ok]),
              !.next = IF ok /\ rec.op = "reply" THEN @ + 1 ELSE @]

\* ctx.reply(body, parse_mode?): the body is characters from .. from + len
Reply(r, F, len, from, html) ==
    Call(r, F, [op |-> "reply", msg |-> r.next, len |-> len, from |-> from,
                html |-> html])

\* ctx.api.editMessageText(chat, message_id, body, parse_mode?)
EditMessage(r, F, msg, len, html) ==
    Call(r, F, [op |-> "edit", msg |-> msg, len |-> len, from |-> 0, html |-> html])

\* ctx.api.deleteMessage(chat, message_id)
DeleteMessage(r, F, msg) ==
    Call(r, F, [op |-> "delete", msg |-> msg, len |-> 0, from |-> 0, html |-> FALSE])

Ok(r) == Last(r.ops).ok

\* an exception leaves the branch
Throw(r) == [r EXCEPT !.thrown = TRUE]

\* statusType === "thinking"
ThinkingEvent(r, F, c) ==
    LET preview == Truncate(c, THINKING_PREVIEW).len
        r1 == Reply(r, F, 10 + preview, 0, TRUE)
    IN  IF Ok(r1) THEN [r1 EXCEPT !.tool = Append(@, r.next)] ELSE Throw(r1)

\* statusType === "tool"
ToolEvent(r, F, c) ==
    LET r1 == Reply(r, F, c.len, 0, TRUE)
    IN  IF Ok(r1) THEN [r1 EXCEPT !.tool = Append(@, r.next)] ELSE Throw(r1)

\* a text event that creates the message whether or not the segment has one
TextEvent_AlwaysCreate(r, F, g, c, now) ==
    LET body == Html(Truncate(c, TELEGRAM_SAFE_LIMIT))
        r1 == Reply(r, F, body, 0, TRUE)
    IN  IF Ok(r1)
        THEN [r1 EXCEPT !.tm[g] = r.next, !.let[g] = now]
        ELSE Throw(r1)

\* a text event whose throttle lets an edit through once T_throttle has elapsed
TextEvent_AtThreshold(r, F, g, c, now) ==
    LET body == Html(Truncate(c, TELEGRAM_SAFE_LIMIT)) IN
    IF r.tm[g] = NoMessage
    THEN LET r1 == Reply(r, F, body, 0, TRUE) IN
         IF Ok(r1)
         THEN [r1 EXCEPT !.tm[g] = r.next, !.let[g] = now]
         ELSE LET r2 == Reply(r1, F, body, 0, FALSE) IN
              IF Ok(r2)
              THEN [r2 EXCEPT !.tm[g] = r1.next, !.let[g] = now]
              ELSE Throw(r2)
    ELSE IF now - r.let[g] >= STREAMING_THROTTLE_MS
    THEN LET r1 == EditMessage(r, F, r.tm[g], body, TRUE)
             r2 == IF Ok(r1) THEN r1 ELSE EditMessage(r1, F, r.tm[g], body, FALSE)
         IN  [r2 EXCEPT !.let[g] = now]
    ELSE r

\* a text event that records the last edit time although no message was created
TextEvent_TimeAnyway(r, F, g, c, now) ==
    LET body == Html(Truncate(c, TELEGRAM_SAFE_LIMIT)) IN
    IF r.tm[g] = NoMessage
    THEN LET r1 == Reply(r, F, body, 0, TRUE) IN
         IF Ok(r1)
         THEN [r1 EXCEPT !.tm[g] = r.next, !.let[g] = now]
         ELSE LET r2 == Reply(r1, F, body, 0, FALSE) IN
              IF Ok(r2)
              THEN [r2 EXCEPT !.tm[g] = r1.next, !.let[g] = now]
              ELSE Throw([r2 EXCEPT !.let[g] = now])
    ELSE IF now - r.let[g] > STREAMING_THROTTLE_MS
    THEN LET r1 == EditMessage(r, F, r.tm[g], body, TRUE)
             r2 == IF Ok(r1) THEN r1 ELSE EditMessage(r1, F, r.tm[g], body, FALSE)
         IN  [r2 EXCEPT !.let[g] = now]
    ELSE r

\* statusType === "text" && segmentId !== undefined
TextEvent(r, F, g, c, now) ==
    LET body == Html(Truncate(c, TELEGRAM_SAFE_LIMIT)) IN
    IF r.tm[g] = NoMessage
    THEN LET r1 == Reply(r, F, body, 0, TRUE) IN
         IF Ok(r1)
         THEN [r1 EXCEPT !.tm[g] = r.next, !.let[g] = now]
         ELSE LET r2 == Reply(r1, F, body, 0, FALSE) IN
              IF Ok(r2)
              THEN [r2 EXCEPT !.tm[g] = r1.next, !.let[g] = now]
              ELSE Throw(r2)
    ELSE IF now - r.let[g] > STREAMING_THROTTLE_MS
    THEN LET r1 == EditMessage(r, F, r.tm[g], body, TRUE)
             r2 == IF Ok(r1) THEN r1 ELSE EditMessage(r1, F, r.tm[g], body, FALSE)
         IN  [r2 EXCEPT !.let[g] = now]
    ELSE r

\* the loop of the overflow split from offset i on: an HTML chunk, a plain one if
\* that fails, and an exception if that fails too
RECURSIVE SendChunks(_, _, _, _)
SendChunks(r, F, total, i) ==
    IF i >= total THEN r
    ELSE LET n == Min(TELEGRAM_SAFE_LIMIT, total - i)
             r1 == Reply(r, F, n, i, TRUE)
         IN  IF Ok(r1) THEN SendChunks(r1, F, total, i + TELEGRAM_SAFE_LIMIT)
             ELSE LET r2 == Reply(r1, F, n, i, FALSE) IN
                  IF Ok(r2) THEN SendChunks(r2, F, total, i + TELEGRAM_SAFE_LIMIT)
                  ELSE Throw(r2)

\* statusType === "segment_end" && segmentId !== undefined
SegmentEndEvent(r, F, g, c) ==
    IF r.tm[g] # NoMessage /\ c.len > 0
    THEN IF Html(c) <= TELEGRAM_MESSAGE_LIMIT
         THEN EditMessage(r, F, r.tm[g], Html(c), TRUE)
         ELSE SendChunks(DeleteMessage(r, F, r.tm[g]), F, Html(c), 0)
    ELSE r

\* a done branch that gives up at the first delete that fails
RECURSIVE DeleteFrom_UntilFailure(_, _, _)
DeleteFrom_UntilFailure(r, F, i) ==
    IF i > Len(r.tool) THEN r
    ELSE LET r1 == DeleteMessage(r, F, r.tool[i]) IN
         IF Ok(r1) THEN DeleteFrom_UntilFailure(r1, F, i + 1) ELSE r1

\* statusType === "done": the loop over state.toolMessages from index i on
RECURSIVE DeleteFrom(_, _, _)
DeleteFrom(r, F, i) ==
    IF i > Len(r.tool) THEN r
    ELSE DeleteFrom(DeleteMessage(r, F, r.tool[i]), F, i + 1)

\* an outer catch that passes the exception on
Absorb_Rethrow(r) == r

\* the outer try/catch of the callback: the error is logged, the call resolves
Absorb(r) == [r EXCEPT !.thrown = FALSE]

\* what a step of the dispatcher leaves alone
Backstage ==
    UNCHANGED <<session, kind, pc, attempt, query, steps, log, triggers, sched, buffer>>

\* the callback was called with (type, g, c) and its promise settled with run r
Emit(type, g, c, r) ==
    /\ stream.events < MaxEvents
    /\ stream' =
          [textMessages |-> r.tm, toolMessages |-> r.tool,
           lastEditTimes |-> r.let, nextId |-> r.next,
           attemptFrom |-> stream.attemptFrom,
           now |-> stream.now, at |-> stream.now,
           ev |-> [type |-> type, seg |-> g, content |-> c],
           ops |-> r.ops, threw |-> r.thrown, calls |-> stream.calls,
           undeleted |-> (stream.undeleted
                            \cup {r.tool[i] : i \in (Len(stream.toolMessages) + 1)..Len(r.tool)})
                         \ Deletes(r.ops),
           events |-> stream.events + 1]
    /\ Backstage

\* the number of messages the overflow split of c sends
Chunks(c) ==
    IF Html(c) <= TELEGRAM_MESSAGE_LIMIT THEN 0
    ELSE (Html(c) + TELEGRAM_SAFE_LIMIT - 1) \div TELEGRAM_SAFE_LIMIT

Delays == {1, STREAMING_THROTTLE_MS}

\* time passes between two events
TimePasses ==
    /\ stream.events < MaxEvents
    /\ stream.now = stream.at
    /\ \E d \in Delays : stream' = [stream EXCEPT !.now = @ + d]
    /\ Backstage

OnThinking ==
    /\ stream.events < MaxEvents
    /\ \E c \in Contents("thinking"), F \in Oracle(1) :
           Emit("thinking", NoSeg, c, Absorb(ThinkingEvent(Begin, F, c)))

OnTool ==
    /\ stream.events < MaxEvents
    /\ \E c \in Contents("tool"), F \in Oracle(1) :
           Emit("tool", NoSeg, c, Absorb(ToolEvent(Begin, F, c)))

\* the most transport calls a text event for segment g can make now
TextCalls(g) ==
    IF g = NoSeg THEN 0
    ELSE 2

OnText ==
    /\ stream.events < MaxEvents
    /\ \E g \in Segs \cup {NoSeg}, c \in Contents("text") :
           \E F \in Oracle(TextCalls(g)) :
               Emit("text", g, c,
                    IF g = NoSeg THEN Begin
                    ELSE Absorb(TextEvent(Begin, F, g, c, stream.now)))

\* the most transport calls a segment_end event (g, c) can make now
SegmentEndCalls(g, c) ==
    IF g = NoSeg THEN 0
    ELSE IF stream.textMessages[g] = NoMessage \/ c.len = 0 THEN 0
    ELSE 1 + 2 * Chunks(c)

OnSegmentEnd ==
    /\ stream.events < MaxEvents
    /\ \E g \in Segs \cup {NoSeg}, c \in Contents("segment_end") :
           \E F \in Oracle(SegmentEndCalls(g, c)) :
               Emit("segment_end", g, c,
                    IF g = NoSeg THEN Begin
                    ELSE Absorb(SegmentEndEvent(Begin, F, g, c)))

OnDone ==
    /\ stream.events < MaxEvents
    /\ \E F \in Oracle(Len(stream.toolMessages)) :
           Emit("done", NoSeg, Empty, Absorb(DeleteFrom(Begin, F, 1)))

\* any other statusType ("context_warning"): no branch matches
OnOther ==
    /\ stream.events < MaxEvents
    /\ \E c \in Contents("other") : Emit("other", NoSeg, c, Absorb(Begin))

StreamNext ==
    \/ TimePasses
    \/ OnThinking
    \/ OnTool
    \/ OnText
    \/ OnSegmentEnd
    \/ OnDone
    \/ OnOther

StreamSpec == Init /\ [][StreamNext]_vars

\* ------------------------------------------------ properties of the callback
\* this step is a call of the callback with an event of the given type
Dispatched(type) ==
    stream'.events = stream.events + 1 /\ stream'.ev.type = type

Renders(ops) == {i \in 1..Len(ops) : ops[i].op \in {"reply", "edit"}}

\* C12: a text event for a segment without a message creates one; for a segment
\* with a message it issues an edit exactly when more than T_throttle has passed
\* since the segment's recorded last edit time, and nothing at all otherwise; the
\* recorded time is the time of the segment's last text-driven render.
C12_Throttle ==
    [][\A g \in Segs :
        (Dispatched("text") /\ stream'.ev.seg = g) =>
            IF stream.textMessages[g] = NoMessage
            THEN /\ stream'.ops # <<>>
                 /\ \A i \in 1..Len(stream'.ops) : stream'.ops[i].op = "reply"
            ELSE /\ stream'.ops # <<>>
                    <=> stream.now - stream.lastEditTimes[g] > STREAMING_THROTTLE_MS
                 /\ \A i \in 1..Len(stream'.ops) :
                        /\ stream'.ops[i].op = "edit"
                        /\ stream'.ops[i].msg = stream.textMessages[g]
                 /\ stream'.ops # <<>> => stream'.lastEditTimes[g] = stream.now
                 /\ stream'.ops = <<>> =>
                        stream'.lastEditTimes[g] = stream.lastEditTimes[g]]_vars

C12_Witness ==
    \E g \in Segs :
        /\ stream.ev = [type |-> "text", seg |-> g, content |-> Short]
        /\ stream.textMessages[g] # NoMessage
        /\ stream.ops = <<>>
        /\ stream.now - stream.lastEditTimes[g] = STREAMING_THROTTLE_MS

\* C13: every segment_end event for a segment identifier produces a render
\* operation, whatever the segment and the final content.
C13_SegmentEndRenders ==
    (stream.ev.type = "segment_end" /\ stream.ev.seg # NoSeg) => stream.ops # <<>>

\* the chunks of the overflow split that reached the chat, in order
Sent(ops) == SelectSeq(ops, LAMBDA o : o.op = "reply" /\ o.ok)

\* C14: for a segment with a message and a final content longer than L_hard,
\* segment_end deletes the message and sends chunks of at most L_safe characters
\* that, in order, make up the final content with no gap and no duplication.
C14_SplitKeepsContent ==
    \A g \in Segs :
        (/\ stream.ev.type = "segment_end"
         /\ stream.ev.seg = g
         /\ stream.textMessages[g] # NoMessage
         /\ stream.ev.content.len > TELEGRAM_MESSAGE_LIMIT)
        => LET sent == Sent(stream.ops) IN
           /\ stream.ops # <<>>
           /\ stream.ops[1].op = "delete"
           /\ stream.ops[1].msg = stream.textMessages[g]
           /\ sent # <<>>
           /\ sent[1].from = 0
           /\ \A i \in 1..Len(sent) : sent[i].len <= TELEGRAM_SAFE_LIMIT
           /\ \A i \in 1..(Len(sent) - 1) :
                  sent[i + 1].from = sent[i].from + sent[i].len
           /\ Last(sent).from + Last(sent).len = Html(stream.ev.content)

\* C15: a segment identifier that has a message keeps that message, and no event
\* for it creates another one, except the overflow split at segment_end.
C15_OneMessagePerSegment ==
    [][\A g \in Segs :
        stream.textMessages[g] # NoMessage =>
            /\ stream'.textMessages[g] = stream.textMessages[g]
            /\ (stream'.events > stream.events /\ stream'.ev.seg = g
                  /\ \E i \in 1..Len(stream'.ops) : stream'.ops[i].op = "reply")
               => (/\ stream'.ev.type = "segment_end"
                   /\ Html(stream'.ev.content) > TELEGRAM_MESSAGE_LIMIT)]_vars

C15_Witness ==
    \E g \in Segs :
        /\ stream.ev.type = "text"
        /\ stream.ev.seg = g
        /\ stream.ops # <<>>
        /\ stream.ops[1].op = "edit"
        /\ stream.ops[1].msg = stream.textMessages[g]

\* C16: done issues a delete for every ephemeral message, in order, whether or
\* not an earlier delete failed, and touches no text-segment message.
C16_DoneDeletesAll ==
    stream.ev.type = "done" =>
        /\ Len(stream.ops) = Len(stream.toolMessages)
        /\ \A i \in 1..Len(stream.ops) :
              /\ stream.ops[i].op = "delete"
              /\ stream.ops[i].msg = stream.toolMessages[i]
              /\ \A g \in Segs : stream.ops[i].msg # stream.textMessages[g]

C16_Witness ==
    /\ stream.ev.type = "done"
    /\ Len(stream.ops) = 2
    /\ ~stream.ops[1].ok

\* C17: the status callback never rejects, whatever transport calls fail.
C17_CallbackNeverThrows == ~stream.threw

C17_Witness ==
    /\ stream.ev.type = "segment_end"
    /\ Len(stream.ops) = 3
    /\ \A i \in 1..3 : ~stream.ops[i].ok
    /\ ~stream.threw

\* C18: every body the dispatcher sends (create or edit) is at most L_hard
\* characters long.
C18_BodyWithinLimit ==
    \A i \in Renders(stream.ops) : stream.ops[i].len <= TELEGRAM_MESSAGE_LIMIT

\* C40: a segment with a last edit time has a message; when the creation of a
\* segment's message fails in the HTML and in the plain attempt, neither map
\* records the segment, and the next text event for it tries to create it again.
C40_TimesOnlyForMessages ==
    [][/\ \A g \in Segs :
            stream'.lastEditTimes[g] # 0 => stream'.textMessages[g] # NoMessage
       /\ \A g \in Segs :
            (Dispatched("text") /\ stream'.ev.seg = g
                /\ stream.textMessages[g] = NoMessage) =>
                /\ stream.lastEditTimes[g] = 0
                /\ stream'.ops # <<>>
                /\ \A i \in 1..Len(stream'.ops) : stream'.ops[i].op = "reply"
                /\ ~Last(stream'.ops).ok =>
                      /\ Len(stream'.ops) = 2
                      /\ stream'.textMessages[g] = NoMessage
                      /\ stream'.lastEditTimes[g] = 0]_vars

C40_Witness ==
    \E g \in Segs :
        /\ stream.events > 1
        /\ stream.ev.type = "text" /\ stream.ev.seg = g
        /\ Len(stream.ops) = 2
        /\ ~stream.ops[1].ok /\ ~stream.ops[2].ok
        /\ stream.nextId = 1
        /\ stream.textMessages[g] = NoMessage
        /\ stream.lastEditTimes[g] = 0

\* ------------------------------------------------ properties of runHeartbeat
\* C19: a heartbeat tick that fires while isRunning is true, or while the session
\* is inactive, calls the adapter not at all, leaves the session as it is, and is
\* over at once (nothing is queued).
C19_TickSkipped ==
    [][\A p \in Procs :
        (pc[p] = "idle" /\ kind'[p] = "heartbeat"
            /\ (~isActive(session) \/ session.isRunning))
        => /\ session' = session
           /\ query' = query
           /\ pc'[p] = "done"
           /\ log'[p] = <<"skipped", "returned">>]_vars

C19_Witness ==
    \E p \in Procs :
        /\ Finished(p, "heartbeat")
        /\ log[p] = <<"skipped", "returned">>
        /\ isActive(session)
        /\ session.isRunning
        /\ Running # {}

\* ================================================== the heartbeat scheduler
\* startHeartbeat / stopHeartbeat and the interval timers they create and clear.
\* A timer is known by the number setInterval returned for it; 0 is null.
NoTimer == 0

\* what a step of the scheduler leaves alone
Offstage ==
    UNCHANGED <<session, kind, pc, attempt, query, steps, log, triggers, stream, buffer>>

\* HEARTBEAT_ENABLED is fixed when the process starts
SchedInit ==
    /\ SessionInit
    /\ stream = Stream0
    /\ buffer = Buffer0
    /\ sched \in {[Sched0 EXCEPT !.enabled = e] : e \in BOOLEAN}

\* setInterval(...): a new interval timer, live until it is cleared
setInterval(sc) ==
    [sc EXCEPT !.created = @ + 1,
               !.timers = @ \cup {sc.created + 1},
               !.heartbeatTimer = sc.created + 1]

\* clearInterval(heartbeatTimer); heartbeatTimer = null
clearInterval(sc) ==
    [sc EXCEPT !.timers = @ \ {sc.heartbeatTimer}, !.heartbeatTimer = NoTimer]

Called(sc, name) == [sc EXCEPT !.calls = @ + 1, !.last = name]

\* a startHeartbeat that does not look at heartbeatTimer
startHeartbeat_Again ==
    /\ sched.calls < MaxCalls
    /\ sched' = Called(IF ~sched.enabled THEN sched ELSE setInterval(sched), "start")
    /\ Offstage

startHeartbeat ==
    /\ sched.calls < MaxCalls
    /\ sched' = Called(IF ~sched.enabled THEN sched
                       ELSE IF sched.heartbeatTimer # NoTimer THEN sched
                       ELSE setInterval(sched), "start")
    /\ Offstage

stopHeartbeat ==
    /\ sched.calls < MaxCalls
    /\ sched' = Called(IF sched.heartbeatTimer # NoTimer THEN clearInterval(sched)
                       ELSE sched, "stop")
    /\ Offstage

\* a live interval timer fires and its callback calls runHeartbeat
IntervalFires ==
    /\ sched.ticks < MaxTicks
    /\ \E t \in sched.timers :
          sched' = [sched EXCEPT !.ticks = @ + 1, !.last = "tick"]
    /\ Offstage

SchedNext ==
    \/ startHeartbeat
    \/ stopHeartbeat
    \/ IntervalFires

SchedSpec == SchedInit /\ [][SchedNext]_vars

\* ---------------------------------------------- properties of the scheduler
IsRunning(sc) == sc.heartbeatTimer # NoTimer

\* the timers of sc are the one heartbeatTimer names, if it names one
OneTimer(sc) ==
    /\ Cardinality(sc.timers) <= 1
    /\ sc.timers = IF IsRunning(sc) THEN {sc.heartbeatTimer} ELSE {}
    /\ IsRunning(sc) => sc.enabled

\* C20: after any calls of startHeartbeat and stopHeartbeat at most one interval
\* timer exists; start moves stopped to running and does nothing when running or
\* disabled; stop moves running to stopped and does nothing when stopped; no tick
\* fires while stopped.
C20_OneHeartbeatTimer ==
    [][/\ OneTimer(sched')
       /\ (sched'.calls > sched.calls /\ sched'.last = "start") =>
             /\ IsRunning(sched') <=> sched.enabled
             /\ (IsRunning(sched) \/ ~sched.enabled) =>
                   /\ sched'.heartbeatTimer = sched.heartbeatTimer
                   /\ sched'.timers = sched.timers
                   /\ sched'.created = sched.created
             /\ (~IsRunning(sched) /\ sched.enabled) =>
                   sched'.created = sched.created + 1
       /\ (sched'.calls > sched.calls /\ sched'.last = "stop") =>
             /\ ~IsRunning(sched')
             /\ sched'.timers = {}
             /\ sched'.created = sched.created
       /\ sched'.ticks > sched.ticks => IsRunning(sched)]_vars

C20_Witness ==
    /\ sched.created = 2
    /\ sched.calls = 3
    /\ sched.last = "tick"
    /\ Cardinality(sched.timers) = 1

\* ==================================================== the heartbeat at work
\* The interval timer of startHeartbeat drives runHeartbeat against a session an
\* earlier query has left active; the events of the heartbeat's query go to its
\* silent callback.
EventTypes == {"thinking", "tool", "text", "segment_end", "done"}

\* the segment identifiers an event of the given type comes with
EventSegs(type) == IF type \in {"text", "segment_end"} THEN Segs ELSE {NoSeg}

\* a heartbeat whose callback announces tool calls as a handler's callback does
silentCallback_Renders(r, F, type, c) ==
    IF type = "tool" THEN ToolEvent(r, F, c) ELSE r

\* const silentCallback = async () => {}
silentCallback(r, F, type, c) == r

\* a live interval timer fires and its callback runs runHeartbeat in the free slot p
Beat(p) ==
    /\ Ready
    /\ pc[p] = "idle"
    /\ \A q \in Procs : q < p => pc[q] # "idle"
    /\ sched.ticks < MaxTicks
    /\ \E t \in sched.timers :
          sched' = [sched EXCEPT !.ticks = @ + 1, !.last = "tick"]
    /\ kind' = [kind EXCEPT ![p] = "heartbeat"]
    /\ runHeartbeat(p)
    /\ UNCHANGED <<attempt, steps, triggers, stream, buffer>>

\* the heartbeat's query in slot p streams an event to the silent callback
BeatEvent(p) ==
    /\ Ready
    /\ kind[p] = "heartbeat"
    /\ pc[p] = "query"
    /\ \E type \in EventTypes :
          \E g \in EventSegs(type), c \in Contents(type), F \in Oracle(1) :
              Emit(type, g, c, silentCallback(Begin, F, type, c))

BeatNext ==
    \/ startHeartbeat
    \/ stopHeartbeat
    \/ \E p \in Procs : Beat(p)
    \/ \E p \in Procs : BeatEvent(p)
    \/ \E p \in Procs : QueryEnd(p)
    \/ \E p \in Procs : QueryTimeout(p)
    \/ \E p \in Procs : Recycle(p)
    \/ ExplicitStop

BeatSpec == ActiveInit /\ [][BeatNext]_vars

\* ------------------------------------------------ properties of the heartbeat
\* C21: a heartbeat that fires on an active, idle session makes exactly one
\* sendMessageStreaming call, and no event of its query and no response makes it
\* issue a transport operation (no create, no edit, no delete, no notice).
C21_HeartbeatSilent ==
    [][\A p \in Procs :
        kind'[p] = "heartbeat" =>
            /\ Count(log'[p], "sms") <= 1
            /\ Notices(log'[p]) = <<>>
            /\ (pc[p] = "idle" /\ isActive(session) /\ ~session.isRunning)
                  => Count(log'[p], "sms") = 1
            /\ (pc'[p] = "done" /\ ~Has(log'[p], "skipped"))
                  => Count(log'[p], "sms") = 1
            /\ (Executing(p) /\ stream'.events > stream.events)
                  => /\ stream'.ops = <<>>
                     /\ stream'.textMessages = stream.textMessages
                     /\ stream'.toolMessages = stream.toolMessages
                     /\ stream'.nextId = stream.nextId]_vars

C21_Witness ==
    \E p \in Procs :
        /\ Finished(p, "heartbeat")
        /\ log[p] = <<"sms", "ok", "returned">>
        /\ stream.events >= 2
        /\ stream.ev.type = "tool"
        /\ stream.ops = <<>>

\* C22: a heartbeat whose query fails (crash, cancellation, timeout, unknown) ends
\* by returning: nothing is thrown out of the tick, the query is not retried, the
\* session is not killed, no notice is sent, and the interval timer stays as it
\* was, so that later ticks fire.
C22_HeartbeatFailureAbsorbed ==
    [][\A p \in Procs :
        (kind'[p] = "heartbeat" /\ pc[p] # "done" /\ pc'[p] = "done") =>
            /\ Last(log'[p]) = "returned"
            /\ Count(log'[p], "sms") <= 1
            /\ Notices(log'[p]) = <<>>
            /\ ~Has(log'[p], "kill")
            /\ session'.sessionId = session.sessionId
            /\ sched'.heartbeatTimer = sched.heartbeatTimer
            /\ sched'.timers = sched.timers]_vars

C22_Witness ==
    \E p \in Procs :
        /\ Finished(p, "heartbeat")
        /\ log[p] = <<"sms", "crash", "returned">>
        /\ sched.ticks >= 2
        /\ IsRunning(sched)
        /\ isActive(session)

\* ==================================================== the media-group buffer
\* createMediaGroupBuffer: addToGroup collects the items of one media group and a
\* timeout of MEDIA_GROUP_TIMEOUT, rearmed by every arrival, hands them to the
\* finalize callback (processPhotos, processDocumentPaths).  An item and the
\* context of its addToGroup call are known by the ordinal of the call.
Gaps == {400, 1100}     \* time between two events: inside and beyond the window

\* what a step of the buffer leaves alone
Aside ==
    UNCHANGED <<session, kind, pc, attempt, query, steps, log, triggers, stream, sched>>

Pending(b, g) == b.groups[g] # NoGroup

\* group.timer = setTimeout(() => processGroup(g), MEDIA_GROUP_TIMEOUT)
setTimeout(b, g) ==
    [b EXCEPT !.created = @ + 1,
              !.timers = @ \cup {[id |-> b.created + 1, group |-> g,
                                  due |-> b.now + MEDIA_GROUP_TIMEOUT]},
              !.groups[g].timer = b.created + 1]

\* clearTimeout(group.timer)
clearTimeout(b, id) == [b EXCEPT !.timers = {t \in @ : t.id # id}]

\* an addToGroup that arms a timeout without clearing the one that is pending
addToGroup_NoClear(b, g) ==
    LET n == Len(b.arrivals) + 1
        b1 == [b EXCEPT !.arrivals = Append(@, [group |-> g, at |-> b.now])]
    IN  IF ~Pending(b, g)
        THEN setTimeout([b1 EXCEPT !.groups[g] = [NoGroup EXCEPT !.items = <<n>>,
                                                                 !.ctx = n]], g)
        ELSE setTimeout([b1 EXCEPT !.groups[g].items = Append(@, n),
                                   !.groups[g].ctx = n], g)

\* addToGroup(g, item, ctx, ...): the first item creates the group and arms the
\* timeout; a later one is appended, its context kept, and the timeout rearmed
addToGroup(b, g) ==
    LET n == Len(b.arrivals) + 1
        b1 == [b EXCEPT !.arrivals = Append(@, [group |-> g, at |-> b.now])]
    IN  IF ~Pending(b, g)
        THEN setTimeout([b1 EXCEPT !.groups[g] = [NoGroup EXCEPT !.items = <<n>>,
                                                                 !.ctx = n]], g)
        ELSE setTimeout(clearTimeout([b1 EXCEPT !.groups[g].items = Append(@, n),
                                                !.groups[g].ctx = n],
                                     b.groups[g].timer), g)

\* a timeout callback that leaves the group in place when it calls finalize
processGroup_KeepsGroup(b, t) ==
    LET g == t.group
        b1 == [b EXCEPT !.timers = @ \ {t}]
    IN  IF ~Pending(b, g) THEN b1
        ELSE [b1 EXCEPT !.calls = Append(@, [group |-> g, items |-> b.groups[g].items,
                                             ctx |-> b.groups[g].ctx]),
                        !.running = @ \cup {Len(b.calls) + 1}]

\* the timeout t fires: the group is removed, then finalize is called with its
\* items and its context
processGroup(b, t) ==
    LET g == t.group
        b1 == [b EXCEPT !.timers = @ \ {t}]
    IN  IF ~Pending(b, g) THEN b1
        ELSE [b1 EXCEPT !.groups[g] = NoGroup,
                        !.calls = Append(@, [group |-> g, items |-> b.groups[g].items,
                                             ctx |-> b.groups[g].ctx]),
                        !.running = @ \cup {Len(b.calls) + 1}]

Due(b) == {t.due : t \in b.timers}

\* the time d from now, or the time of the first timeout that is due before that
NextTime(b, d) ==
    IF \E u \in Due(b) : u <= b.now + d
    THEN CHOOSE u \in Due(b) : \A v \in Due(b) : u <= v
    ELSE b.now + d

\* the time of the last addToGroup call
LastArrival(b) == IF b.arrivals = <<>> THEN 0 ELSE Last(b.arrivals).at

\* an item of media group g arrives
AddToGroup(g) ==
    /\ Len(buffer.arrivals) < MaxItems
    /\ buffer' = addToGroup(buffer, g)
    /\ Aside

\* a timeout that is due fires
TimeoutFires ==
    /\ buffer.timers # {}
    /\ \E t \in buffer.timers :
          /\ t.due <= buffer.now
          /\ buffer' = processGroup(buffer, t)
    /\ Aside

\* a finalize call returns
FinalizeReturns ==
    /\ buffer.running # {}
    /\ \E i \in buffer.running : buffer' = [buffer EXCEPT !.running = @ \ {i}]
    /\ Aside

\* time passes, up to the next timeout; a timeout that is due fires before time
\* goes on
Wait ==
    /\ \A t \in buffer.timers : t.due > buffer.now
    /\ \/ buffer.timers # {}
       \/ /\ buffer.arrivals # <<>>
          /\ Len(buffer.arrivals) < MaxItems
          /\ buffer.now <= LastArrival(buffer) + MEDIA_GROUP_TIMEOUT
    /\ \E d \in Gaps : buffer' = [buffer EXCEPT !.now = NextTime(buffer, d)]
    /\ Aside

GroupNext ==
    \/ \E g \in Groups : AddToGroup(g)
    \/ TimeoutFires
    \/ FinalizeReturns
    \/ Wait

GroupSpec == Init /\ [][GroupNext]_vars

\* ------------------------------------------------ properties of the buffer
\* where item n is: in a finalize call, or in a pending group
Places(b, n) ==
    {<<"call", i>> : i \in {j \in 1..Len(b.calls) : Has(b.calls[j].items, n)}}
        \cup {<<"group", g>> : g \in {h \in Groups : Has(b.groups[h].items, n)}}

\* m and n are consecutive arrivals of one media group
Consecutive(b, m, n) ==
    /\ m < n
    /\ b.arrivals[m].group = b.arrivals[n].group
    /\ \A k \in (m + 1)..(n - 1) : b.arrivals[k].group # b.arrivals[m].group

Ascending(sq) == \A i \in 1..(Len(sq) - 1) : sq[i] < sq[i + 1]

\* C23: items of one group identifier that arrive less than the debounce window
\* apart end up in one finalize call, in arrival order; items more than the window
\* apart end up in different ones; and every item is in exactly one group or call.
C23_DebounceBatches ==
    LET b == buffer
        N == Len(b.arrivals)
    IN  /\ \A n \in 1..N : Cardinality(Places(b, n)) = 1
        /\ \A i \in 1..Len(b.calls) :
              /\ Ascending(b.calls[i].items)
              /\ \A k \in 1..Len(b.calls[i].items) :
                    b.arrivals[b.calls[i].items[k]].group = b.calls[i].group
        /\ \A g \in Groups : Ascending(b.groups[g].items)
        /\ \A m, n \in 1..N :
              Consecutive(b, m, n) =>
                 /\ b.arrivals[n].at - b.arrivals[m].at < MEDIA_GROUP_TIMEOUT
                       => Places(b, m) = Places(b, n)
                 /\ b.arrivals[n].at - b.arrivals[m].at > MEDIA_GROUP_TIMEOUT
                       => Places(b, m) # Places(b, n)

C23_Witness ==
    /\ Len(buffer.calls) = 2
    /\ buffer.calls[1].group = buffer.calls[2].group
    /\ buffer.calls[1].items = <<1, 2>>
    /\ buffer.calls[2].items = <<3>>
    /\ buffer.arrivals[2].at - buffer.arrivals[1].at < MEDIA_GROUP_TIMEOUT
    /\ buffer.arrivals[3].at - buffer.arrivals[2].at > MEDIA_GROUP_TIMEOUT

\* C24: a group has at most one timeout pending, the one its last arrival armed;
\* a finalize call gets the items the group held, with the context of the last
\* addToGroup call, after the group was removed: an item that arrives while the
\* call runs starts a new group, and no item is handed over twice.
C24_OneTimerOneFinalize ==
    LET b == buffer IN
    /\ \A g \in Groups :
          /\ Cardinality({t \in b.timers : t.group = g}) <= 1
          /\ Pending(b, g) <=> \E t \in b.timers : t.group = g
          /\ Pending(b, g) =>
                \E t \in b.timers :
                    /\ t.id = b.groups[g].timer
                    /\ t.due = b.arrivals[Last(b.groups[g].items)].at + MEDIA_GROUP_TIMEOUT
    /\ \A i \in 1..Len(b.calls) :
          /\ b.calls[i].items # <<>>
          /\ b.calls[i].ctx = Last(b.calls[i].items)
          /\ \A g \in Groups, k \in 1..Len(b.calls[i].items) :
                ~Has(b.groups[g].items, b.calls[i].items[k])
          /\ \A j \in 1..Len(b.calls), k \in 1..Len(b.calls[i].items) :
                j # i => ~Has(b.calls[j].items, b.calls[i].items[k])

C24_Witness ==
    \E g \in Groups :
        /\ buffer.calls = <<[group |-> g, items |-> <<1, 2>>, ctx |-> 2]>>
        /\ buffer.running = {1}
        /\ buffer.groups[g].items = <<3>>
        /\ \E t \in buffer.timers : t.group = g

\* ============================================== handleText with its callback
\* One text message from start-up: the events of its query go to the callback of
\* handleText's StreamingState, and a crash takes it through the catch block to a
\* second attempt with a fresh state.
FirstMessage(p) ==
    /\ triggers = 0
    /\ TextArrive(p)

\* the query of handleText in slot p streams an event to statusCallback
TextStreams(p) ==
    /\ Ready
    /\ kind[p] = "text"
    /\ pc[p] = "query"
    /\ \/ OnThinking
       \/ OnTool
       \/ OnText
       \/ OnSegmentEnd
       \/ OnDone

RetryNext ==
    \/ FirstMessage(1)
    \/ TextStreams(1)
    \/ QueryEnd(1)
    \/ QueryTimeout(1)
    \/ ExplicitStop
    \/ TextPost(1)
    \/ TextCatch(1)
    \/ TextRetry(1)
    \/ TextNotice(1)
    \/ Recycle(1)

RetrySpec == Init /\ [][RetryNext]_vars

\* the message_ids a StreamingState holds
Held(st) ==
    {st.textMessages[g] : g \in Segs} \cup {st.toolMessages[i] : i \in 1..Len(st.toolMessages)}

\* C27: after a crash of the first attempt handleText deletes the attempt's
\* ephemeral messages, calls kill() (the session identity is absent), sends the
\* retry notice and allocates a fresh StreamingState, all before the second
\* sendMessageStreaming; and no event of the second attempt reads or writes a
\* message of the first.
C27_RetryStartsAfresh ==
    [][\A p \in Procs :
        /\ Count(log'[p], "kill") > Count(log[p], "kill") =>
              /\ Last(log[p]) = "crash"
              /\ Count(log[p], "sms") = 1
              /\ Len(stream'.ops) = Len(stream.toolMessages)
              /\ \A i \in 1..Len(stream'.ops) :
                    /\ stream'.ops[i].op = "delete"
                    /\ stream'.ops[i].msg = stream.toolMessages[i]
              /\ session'.sessionId = NoSession
        /\ Count(log'[p], "sms") > Count(log[p], "sms") /\ Count(log[p], "sms") > 0 =>
              /\ Last(log[p]) = "kill"
              /\ log[p][Len(log[p]) - 1] = "crash"
              /\ log'[p] = log[p] \o <<"retryNotice", "sms">>
                    \/ log'[p] = log[p] \o <<"retryNotice", "sms", "rejected">>
              /\ Held(stream') = {NoMessage}
              /\ \A g \in Segs : stream'.lastEditTimes[g] = 0
              /\ stream'.attemptFrom = stream.nextId
        /\ (attempt[p] > 0 /\ stream'.events > stream.events) =>
              /\ \A i \in 1..Len(stream'.ops) : stream'.ops[i].msg >= stream.attemptFrom
              /\ \A m \in Held(stream') \ {NoMessage} : m >= stream.attemptFrom]_vars

C27_Witness ==
    \E g \in Segs :
        /\ kind[1] = "text"
        /\ attempt[1] = 1
        /\ Executing(1)
        /\ stream.attemptFrom > 2
        /\ stream.ev = [type |-> "text", seg |-> g, content |-> Short]
        /\ stream.ops # <<>>
        /\ stream.ops[1].op = "reply"
        /\ stream.ops[1].ok
        /\ stream.textMessages[g] = stream.attemptFrom

\* ------------------------------------------- a query that ends with done
\* The events of a query end with done when the query succeeds, and nothing is
\* streamed after done.
Streams(p) ==
    /\ stream.ev.type # "done"
    /\ TextStreams(p)

Succeeds(p) ==
    /\ stream.ev.type = "done"
    /\ QuerySettles(p, {"ok"})

Fails(p) ==
    /\ pc[p] = "query"
    /\ QuerySettles(p, AdapterOutcomes \ {"ok"})

CleanNext ==
    \/ FirstMessage(1)
    \/ Streams(1)
    \/ Succeeds(1)
    \/ Fails(1)
    \/ QueryTimeout(1)
    \/ ExplicitStop
    \/ TextPost(1)
    \/ TextCatch(1)
    \/ TextRetry(1)
    \/ TextNotice(1)
    \/ Recycle(1)

CleanSpec == Init /\ [][CleanNext]_vars

\* C38: when handleText is over, however it ended, a delete has been issued for
\* every thinking and tool message sent during any of its attempts.
C38_NoEphemeralLeft ==
    \A p \in Procs : Finished(p, "text") => stream.undeleted = {}

C38_Witness ==
    /\ Finished(1, "text")
    /\ Results(log[1]) = <<"crash", "cancelled">>
    /\ stream.attemptFrom > 1
    /\ stream.toolMessages # <<>>
    /\ stream.undeleted = {}

\* ================================== the text branch, from await to await
\* One call of the callback with a text event, resumed at each of its awaits: the
\* call reads Date.now() and lastEditTimes, issues its transport call, and writes
\* lastEditTimes only once that call has settled. stream.calls[i].stage is the
\* await the i-th call waits at: "html" (the first transport call), "plain" (the
\* fallback without parse_mode), or "settled".

\* a session that passes the next event on without awaiting the callback
Dispatchable_NoAwait(st) == TRUE

\* the session awaits the callback before it passes the next event on
Dispatchable(st) == \A i \in 1..Len(st.calls) : st.calls[i].stage = "settled"

\* the callback is called with a text event for segment g and runs up to its
\* first await, or to its end if the throttle turns the event away
TextCalled ==
    /\ stream.events < MaxEvents
    /\ Dispatchable(stream)
    /\ \E g \in Segs :
        LET now == stream.now
            lastEdit == stream.lastEditTimes[g]
            op == IF stream.textMessages[g] = NoMessage THEN "reply"
                  ELSE IF now - lastEdit > STREAMING_THROTTLE_MS THEN "edit"
                  ELSE "none"
        IN  stream' = [stream EXCEPT
                !.events = @ + 1,
                !.at = now,
                !.calls = IF op = "none" THEN @
                          ELSE Append(@, [seg |-> g, now |-> now, op |-> op,
                                          stage |-> "html"])]
    /\ Backstage

\* the transport call a pending call of the callback waits for settles, and the
\* callback runs on to its next await or to its end
TextResumed ==
    /\ \E i \in 1..Len(stream.calls), ok \in BOOLEAN :
        LET c == stream.calls[i]
            g == c.seg
        IN  /\ c.stage # "settled"
            /\ stream' =
                 IF ok /\ c.op = "reply"
                 THEN [stream EXCEPT !.calls[i].stage = "settled",
                                     !.textMessages[g] = stream.nextId,
                                     !.nextId = @ + 1,
                                     !.lastEditTimes[g] = c.now]
                 ELSE IF ok
                 THEN [stream EXCEPT !.calls[i].stage = "settled",
                                     !.lastEditTimes[g] = c.now]
                 ELSE IF c.stage = "html"
                 THEN [stream EXCEPT !.calls[i].stage = "plain"]
                 ELSE IF c.op = "edit"
                 THEN [stream EXCEPT !.calls[i].stage = "settled",
                                     !.lastEditTimes[g] = c.now]
                 ELSE [stream EXCEPT !.calls[i].stage = "settled"]
    /\ Backstage

\* time passes, between two events or while a transport call is under way
Elapses ==
    /\ stream.events < MaxEvents
    /\ stream.now - stream.at \in {0, STREAMING_THROTTLE_MS}
    /\ \E d \in Delays : stream' = [stream EXCEPT !.now = @ + d]
    /\ Backstage

EditNext ==
    \/ TextCalled
    \/ TextResumed
    \/ Elapses

EditSpec == Init /\ [][EditNext]_vars

\* C30: the renders of one segment are issued in event order and one at a time:
\* when an edit for a segment is issued, every earlier render of that segment has
\* settled, and the edit is more than T_throttle later than each of them.
C30_EditsInTurn ==
    \A i, j \in 1..Len(stream.calls) :
        (i < j /\ stream.calls[i].seg = stream.calls[j].seg
               /\ stream.calls[j].op = "edit")
            => /\ stream.calls[i].stage = "settled"
               /\ stream.calls[i].now <= stream.calls[j].now
               /\ stream.calls[j].now - stream.calls[i].now > STREAMING_THROTTLE_MS

C30_Witness ==
    \E i, j \in 1..Len(stream.calls) :
        /\ i < j
        /\ stream.calls[i].seg = stream.calls[j].seg
        /\ stream.calls[i].op = "edit" /\ stream.calls[i].stage = "settled"
        /\ stream.calls[j].op = "edit"

\* ============================================ the response of a heartbeat
\* A response is a string put together from pieces: a blank, the token
\* HEARTBEAT_TOKEN, the words the acknowledgment patterns are made of, a full stop,
\* and fifteen characters of other text.
Pieces == {"blank", "token", "ok", "heartbeat", "session", "active", "dot", "text"}

\* the number of characters of a piece; "[[HEARTBEAT_ACK]]" has seventeen
Width(x) ==
    CASE x = "blank"     -> 1
      [] x = "token"     -> 17
      [] x = "ok"        -> 2
      [] x = "heartbeat" -> 9
      [] x = "session"   -> 7
      [] x = "active"    -> 6
      [] x = "dot"       -> 1
      [] OTHER           -> 15

Responses == UNION {[1..n -> Pieces] : n \in 0..MaxPieces}

RECURSIVE length(_)
\* String.prototype.length
length(r) == IF r = <<>> THEN 0 ELSE Width(Head(r)) + length(Tail(r))

RECURSIVE trimStart(_)
trimStart(r) ==
    IF r # <<>> /\ Head(r) = "blank" THEN trimStart(Tail(r)) ELSE r

RECURSIVE trimEnd(_)
trimEnd(r) ==
    IF r # <<>> /\ r[Len(r)] = "blank" THEN trimEnd(SubSeq(r, 1, Len(r) - 1)) ELSE r

\* String.prototype.trim
trim(r) == trimEnd(trimStart(r))

\* r.includes(HEARTBEAT_TOKEN)
includes(r) == \E i \in 1..Len(r) : r[i] = "token"

\* r.replace(HEARTBEAT_TOKEN, ""): a string pattern replaces its first occurrence
replace(r) ==
    IF ~includes(r) THEN r
    ELSE LET i == CHOOSE k \in 1..Len(r) :
                      r[k] = "token" /\ \A m \in 1..(k - 1) : r[m] # "token"
         IN  SubSeq(r, 1, i - 1) \o SubSeq(r, i + 1, Len(r))

\* ackPatterns, tested against the whole string:
\* /^(ok|okay|ack|acknowledged|noted|...)\.?$/i,
\* /^heartbeat (ok|received|acknowledged)\.?$/i, /^session (active|alive)\.?$/i
ackPatterns(r) ==
    LET body == IF r # <<>> /\ r[Len(r)] = "dot" THEN SubSeq(r, 1, Len(r) - 1) ELSE r
    IN  \/ body = <<"ok">>
        \/ body = <<"heartbeat", "blank", "ok">>
        \/ body = <<"session", "blank", "active">>

\* a classification that suppresses a remainder shorter than MAX_ACK_LENGTH only
shouldSuppressHeartbeatResponse_Shorter(response) ==
    IF response = <<>> THEN TRUE
    ELSE LET trimmed == trim(response) IN
         IF trimmed = <<>> THEN TRUE
         ELSE IF includes(trimmed)
                 /\ LET stripped == trim(replace(trimmed))
                    IN  stripped = <<>> \/ length(stripped) < MAX_ACK_LENGTH
         THEN TRUE
         ELSE ackPatterns(trimmed)

shouldSuppressHeartbeatResponse(response) ==
    IF response = <<>> THEN TRUE
    ELSE LET trimmed == trim(response) IN
         IF trimmed = <<>> THEN TRUE
         ELSE IF includes(trimmed)
                 /\ LET stripped == trim(replace(trimmed))
                    IN  stripped = <<>> \/ length(stripped) <= MAX_ACK_LENGTH
         THEN TRUE
         ELSE ackPatterns(trimmed)

AckInit ==
    /\ SessionInit
    /\ stream = Stream0
    /\ buffer = Buffer0
    /\ sched \in {[Sched0 EXCEPT !.response = r] : r \in Responses}

\* runHeartbeat with the response of its query in hand
HeartbeatResponse ==
    /\ sched.verdict = "none"
    /\ sched' = [sched EXCEPT !.verdict =
                    IF shouldSuppressHeartbeatResponse(sched.response)
                    THEN "suppressed" ELSE "content"]
    /\ UNCHANGED <<session, kind, pc, attempt, query, steps, log, triggers,
                   stream, buffer>>

AckSpec == AckInit /\ [][HeartbeatResponse]_vars

\* the characters of r that are not blanks at either end, the token taken out
\* where it first stands
Remainder(r) ==
    LET t == trim(r)
        first == CHOOSE k \in 1..Len(t) :
                     t[k] = "token" /\ \A m \in 1..(k - 1) : t[m] # "token"
    IN  trim([k \in 1..(Len(t) - 1) |-> IF k < first THEN t[k] ELSE t[k + 1]])

\* a short acknowledgment phrase, with or without its full stop
Phrase(r) ==
    r \in {<<"ok">>, <<"ok", "dot">>,
           <<"heartbeat", "blank", "ok">>, <<"heartbeat", "blank", "ok", "dot">>,
           <<"session", "blank", "active">>, <<"session", "blank", "active", "dot">>}

\* C32: a response is suppressed exactly when it is empty once trimmed, or it
\* holds the token and what is left without the token, trimmed, has at most
\* MAX_ACK_LENGTH characters, or it is, trimmed, one of the acknowledgment
\* phrases; every other response is content-bearing, the token followed by more
\* than MAX_ACK_LENGTH characters included.
C32_SuppressedExactly ==
    sched.verdict # "none" =>
        LET r == sched.response IN
        /\ sched.verdict = "suppressed" <=>
              \/ trim(r) = <<>>
              \/ includes(r) /\ length(Remainder(r)) <= MAX_ACK_LENGTH
              \/ Phrase(trim(r))
        /\ (r # <<>> /\ Head(r) = "token" /\ length(Remainder(r)) > MAX_ACK_LENGTH)
              => sched.verdict = "content"

C32_Witness ==
    /\ sched.verdict = "content"
    /\ Len(sched.response) > 1
    /\ Head(sched.response) = "token"
    /\ \A i \in 2..Len(sched.response) : sched.response[i] \in {"text", "dot"}

====
